---- MODULE Spec2Model ----
(***************************************************************************)
(* A model of scripts/ci/publish.ts: the release script that loads the     *)
(* package manifests, builds the dependency graph, checks it for circular  *)
(* dependencies, reads the latest changes from git, computes the affected  *)
(* packages and their publish order, and then tests or publishes them.     *)
(*                                                                         *)
(* Strings the script inspects (package names, paths) are sequences of     *)
(* chunks whose concatenation is the string; the chunks are cut so that    *)
(* "is a prefix of" on chunk sequences is String.startsWith on the strings *)
(* of this workspace.                                                      *)
(***************************************************************************)
EXTENDS Integers, Sequences, FiniteSets, TLC

VARIABLES pc, args, rawPackages, packages, info, commits, stdout, changes,
          changedPackages, publishOrder, prisma2Version, delay, queue,
          current, log, error

vars == <<pc, args, rawPackages, packages, info, commits, stdout, changes,
          changedPackages, publishOrder, prisma2Version, delay, queue,
          current, log, error>>

----------------------------------------------------------------------------
(* Helpers for arrays and strings *)

Range(s) == {s[i] : i \in DOMAIN s}

\* String.prototype.startsWith
StartsWith(s, prefix) ==
    /\ Len(prefix) <= Len(s)
    /\ SubSeq(s, 1, Len(prefix)) = prefix

\* path.dirname of "<dir>/<file>"
Dirname(p) == SubSeq(p, 1, Len(p) - 2)

\* path.join(dir, rel); path.join(dir, "") is dir
Join(dir, rel) == IF rel = <<>> THEN dir ELSE dir \o <<"/">> \o rel

RECURSIVE flatten(_)
flatten(arr) ==
    IF arr = <<>> THEN <<>> ELSE Head(arr) \o flatten(Tail(arr))

intersection(arr1, arr2) == SelectSeq(arr1, LAMBDA value : value \in Range(arr2))

\* Array.prototype.slice(n)
Slice(arr, n) == IF Len(arr) <= n THEN <<>> ELSE SubSeq(arr, n + 1, Len(arr))

----------------------------------------------------------------------------
(* The workspace: the manifests getPackages can find *)

GetPlatform == <<"@prisma", "/get-platform">>
EngineCore  == <<"@prisma", "/engine-core">>
Photon      == <<"@prisma", "/photon">>
Lift        == <<"@prisma", "/lift">>
Prisma2     == <<"prisma2">>
\* declared by manifests but not packages of the workspace
Studio      == <<"@prisma", "/studio">>

\* the order in which globby lists the manifests
PkgOrder == <<GetPlatform, EngineCore, Photon, Lift, Prisma2>>

PkgNames == Range(PkgOrder)

Repos == {"prisma2", "lift", "photonjs"}

PkgPath(n) ==
    CASE n = GetPlatform -> <<"photonjs", "/", "packages", "/", "get-platform", "/", "package.json">>
      [] n = EngineCore  -> <<"photonjs", "/", "packages", "/", "engine-core", "/", "package.json">>
      [] n = Photon      -> <<"photonjs", "/", "packages", "/", "photon", "/", "package.json">>
      [] n = Lift        -> <<"lift", "/", "package.json">>
      [] n = Prisma2     -> <<"prisma2", "/", "cli", "/", "prisma2", "/", "package.json">>

\* versions: patch number, and the number after "alpha." (NoAlpha: no prerelease)
NoAlpha == 0 - 1

Version(patch, alpha) == [patch |-> patch, alpha |-> alpha]

\* the empty output of `npm info`
EmptyVersion == [patch |-> NoAlpha, alpha |-> NoAlpha]

PkgVersion(n) ==
    CASE n = GetPlatform -> Version(5, NoAlpha)
      [] n = EngineCore  -> Version(2, NoAlpha)
      [] n = Photon      -> Version(0, 4)
      [] n = Lift        -> Version(8, NoAlpha)
      [] n = Prisma2     -> Version(0, 3)

\* which manifests declare a "test" script
HasTest(n) == n \in {EngineCore, Lift, Prisma2}

\* The dependency declarations a manifest of the workspace may carry:
\* <<declaring package, declared name, is a devDependency>>
Declarable ==
    << <<EngineCore,  GetPlatform, FALSE>>,
       <<Photon,      EngineCore,  FALSE>>,
       <<Lift,        Photon,      FALSE>>,
       <<Prisma2,     Lift,        FALSE>>,
       <<Lift,        GetPlatform, FALSE>>,
       <<Prisma2,     EngineCore,  FALSE>>,
       <<GetPlatform, Photon,      FALSE>>,
       <<GetPlatform, EngineCore,  TRUE>>,
       <<Photon,      EngineCore,  TRUE>>,
       <<EngineCore,  Studio,      FALSE>>,
       <<Photon,      Prisma2,     FALSE>>,
       <<GetPlatform, GetPlatform, FALSE>> >>

\* at most this many declarations over the whole workspace
MaxDeps == 4

DeclChoices == {S \in SUBSET DOMAIN Declarable : Cardinality(S) <= MaxDeps}

\* Object.keys of the "dependencies" (dev: "devDependencies") of n's manifest
DeclaredKeys(S, n, dev) ==
    LET picked == SelectSeq([i \in DOMAIN Declarable |-> i],
                            LAMBDA i : /\ i \in S
                                       /\ Declarable[i][1] = n
                                       /\ Declarable[i][3] = dev)
    IN  [k \in DOMAIN picked |-> Declarable[picked[k]][2]]

\* the RawPackages of a choice of declarations
RawOf(S) ==
    [n \in PkgNames |->
        [path |-> PkgPath(n),
         packageJson |-> [name |-> n,
                          version |-> PkgVersion(n),
                          test |-> HasTest(n),
                          dependencies |-> DeclaredKeys(S, n, FALSE),
                          devDependencies |-> DeclaredKeys(S, n, TRUE)]]]

\* Object.keys / Object.values order of an object keyed by package name
Keys(obj) == SelectSeq(PkgOrder, LAMBDA n : n \in DOMAIN obj)

----------------------------------------------------------------------------
(* The dependency graph *)

\* getPrismaDependencies without its filter on the namespace prefix
getAnyDependencies(dependencies) == dependencies

getPrismaDependencies(dependencies) ==
    SelectSeq(dependencies, LAMBDA d : StartsWith(d, <<"@prisma">>))

\* the reduce of getPackageDependencies: the records before they are linked
packageCache(raw) ==
    [name \in DOMAIN raw |->
        [version |-> raw[name].packageJson.version,
         name |-> name,
         path |-> raw[name].path,
         usedBy |-> <<>>,
         usedByDev |-> <<>>,
         uses |-> getPrismaDependencies(raw[name].packageJson.dependencies),
         usesDev |-> getPrismaDependencies(raw[name].packageJson.devDependencies),
         packageJson |-> raw[name].packageJson]]

\* pushUsedBy recording the dependency's own name instead of the dependant's
RECURSIVE pushUsedByDependency(_, _, _, _)
pushUsedByDependency(st, name, deps, field) ==
    IF deps = <<>> THEN st
    ELSE LET dependency == Head(deps)
             next == IF dependency \in DOMAIN st.cache
                     THEN [st EXCEPT !.cache[dependency][field] = Append(@, dependency)]
                     ELSE [st EXCEPT !.info = Append(@, dependency)]
         IN  pushUsedByDependency(next, name, Tail(deps), field)

\* one inner loop of getPackageDependencies: field is "usedBy" or "usedByDev";
\* st is the cache and the diagnostics printed so far
RECURSIVE pushUsedBy(_, _, _, _)
pushUsedBy(st, name, deps, field) ==
    IF deps = <<>> THEN st
    ELSE LET dependency == Head(deps)
             next == IF dependency \in DOMAIN st.cache
                     THEN [st EXCEPT !.cache[dependency][field] = Append(@, name)]
                     ELSE [st EXCEPT !.info = Append(@, dependency)]
         IN  pushUsedBy(next, name, Tail(deps), field)

RECURSIVE linkPackages(_, _)
linkPackages(st, order) ==
    IF order = <<>> THEN st
    ELSE LET pkg == st.cache[Head(order)]
             s1 == pushUsedBy(st, pkg.name, pkg.uses, "usedBy")
             s2 == pushUsedBy(s1, pkg.name, pkg.usesDev, "usedByDev")
         IN  linkPackages(s2, Tail(order))

\* .cache: the Packages returned; .info: the names of the "Skipping" diagnostics
getPackageDependencies(raw) ==
    linkPackages([cache |-> packageCache(raw), info |-> <<>>], Keys(raw))

\* circlesOf looking at the runtime dependencies only
RECURSIVE circlesOfUsesOnly(_, _)
circlesOfUsesOnly(pkgs, order) ==
    IF order = <<>> THEN <<>>
    ELSE LET pkg == pkgs[Head(order)]
             circles == intersection(pkg.uses, pkg.usedBy)
         IN  (IF Len(circles) > 0 THEN <<circles>> ELSE <<>>)
             \o circlesOfUsesOnly(pkgs, Tail(order))

RECURSIVE circlesOf(_, _)
circlesOf(pkgs, order) ==
    IF order = <<>> THEN <<>>
    ELSE LET pkg == pkgs[Head(order)]
             uses == pkg.uses \o pkg.usesDev
             usedBy == pkg.usedBy \o pkg.usedByDev
             circles == intersection(uses, usedBy)
         IN  (IF Len(circles) > 0 THEN <<circles>> ELSE <<>>)
             \o circlesOf(pkgs, Tail(order))

getCircularDependencies(pkgs) == circlesOf(pkgs, Keys(pkgs))

----------------------------------------------------------------------------
(* The packages affected by a change.  An object keyed by package name is  *)
(* the sequence of its keys in insertion order; its values are the records *)
(* of `packages`.                                                          *)

directlyChanged(pkgs, chgs) ==
    SelectSeq(Keys(pkgs),
              LAMBDA p : \E i \in DOMAIN chgs :
                             StartsWith(chgs[i], Dirname(pkgs[p].path)))

RECURSIVE addDependants(_, _, _)
RECURSIVE addEach(_, _, _)
addEach(pkgs, names, affected) ==
    IF names = <<>> THEN affected
    ELSE LET dependency == Head(names)
         IN  IF dependency \notin Range(affected)
             THEN addEach(pkgs, Tail(names),
                          addDependants(pkgs, dependency, Append(affected, dependency)))
             ELSE addEach(pkgs, Tail(names), affected)

\* addDependants without its second loop, over usedByDev
addDependantsUsedByOnly(pkgs, name, affected) ==
    addEach(pkgs, pkgs[name].usedBy, affected)

addDependants(pkgs, name, affected) ==
    addEach(pkgs, pkgs[name].usedByDev, addEach(pkgs, pkgs[name].usedBy, affected))

RECURSIVE addAll(_, _, _)
addAll(pkgs, changed, affected) ==
    IF changed = <<>> THEN affected
    ELSE addAll(pkgs, Tail(changed), addDependants(pkgs, Head(changed), affected))

getPackagesAffectedByChange(pkgs, chgs) ==
    LET changed == directlyChanged(pkgs, chgs)
    IN  addAll(pkgs, changed, changed)

----------------------------------------------------------------------------
(* The publish order *)

\* the dag without the usedByDev edges
dagOfUsedByOnly(pkgs, affected) ==
    [keys |-> affected,
     edges |-> [n \in Range(affected) |-> pkgs[n].usedBy]]

\* the dag handed to topo: its keys in insertion order and its adjacency lists
dagOf(pkgs, affected) ==
    [keys |-> affected,
     edges |-> [n \in Range(affected) |-> pkgs[n].usedBy \o pkgs[n].usedByDev]]

\* batching-toposort: the in-degree of every vertex, one per listed edge
countInDegrees(dag) ==
    [v \in Range(dag.keys) |->
        Cardinality(UNION {{<<u, i>> : i \in {j \in DOMAIN dag.edges[u] : dag.edges[u][j] = v}} :
                              u \in Range(dag.keys)})]

RECURSIVE decrementAll(_, _, _)
decrementAll(indegrees, dependents, newRoots) ==
    IF dependents = <<>> THEN [indegrees |-> indegrees, newRoots |-> newRoots]
    ELSE LET dependent == Head(dependents)
             n == indegrees[dependent] - 1
         IN  decrementAll([indegrees EXCEPT ![dependent] = n], Tail(dependents),
                          IF n = 0 THEN Append(newRoots, dependent) ELSE newRoots)

RECURSIVE topoLoop(_, _, _, _)
topoLoop(dag, indegrees, roots, sorted) ==
    IF roots = <<>> THEN [indegrees |-> indegrees, sorted |-> sorted]
    ELSE LET dependents == flatten([i \in DOMAIN roots |-> dag.edges[roots[i]]])
             r == decrementAll(indegrees, dependents, <<>>)
         IN  topoLoop(dag, r.indegrees, r.newRoots, Append(sorted, roots))

\* .cycle: the error "Cycle(s) detected"; .sorted: the batches otherwise
topo(dag) ==
    LET indegrees == countInDegrees(dag)
        roots == SelectSeq(dag.keys, LAMBDA v : indegrees[v] = 0)
        r == topoLoop(dag, indegrees, roots, <<>>)
        nonRoots == {v \in Range(dag.keys) : r.indegrees[v] # 0}
    IN  [cycle |-> nonRoots # {}, sorted |-> IF nonRoots # {} THEN <<>> ELSE r.sorted]

getPublishOrder(pkgs, affected) == topo(dagOf(pkgs, affected))

----------------------------------------------------------------------------
(* Commands and their outcomes *)

Cmd(cwd, cmd, tag, version) ==
    [cwd |-> cwd, cmd |-> cmd, tag |-> tag, version |-> version, status |-> "running"]

Plain(cwd, cmd) == Cmd(cwd, cmd, "", EmptyVersion)

\* the command issued last has completed with `status`
Settle(l, status) == [l EXCEPT ![Len(l)].status = status]

\* the last n commands, issued together, have all completed successfully
SettleAll(l, n) ==
    [i \in DOMAIN l |-> IF i > Len(l) - n THEN [l[i] EXCEPT !.status = "ok"] ELSE l[i]]

\* the k-th of the last n commands, issued together, has failed
SettleFailed(l, n, k) == [l EXCEPT ![Len(l) - n + k].status = "failed"]

PkgDir(n) == Dirname(packages[n].path)

----------------------------------------------------------------------------
(* What git and npm can answer *)

\* which repository holds the latest commit: the commit dates of the three
DateChoices ==
    { [prisma2 |-> 3, lift |-> 2, photonjs |-> 1],
      [prisma2 |-> 1, lift |-> 3, photonjs |-> 2],
      [prisma2 |-> 2, lift |-> 1, photonjs |-> 3] }

\* the lines `git diff-tree --name-only` can print in a repository
DiffOutputs(dir) ==
    CASE dir = "photonjs" ->
           { <<>>,
             << <<"packages", "/", "get-platform", "/", "readme.md">> >>,
             << <<"packages", "/", "engine-core", "/", "src", "/", "index.ts">> >>,
             << <<"packages", "/", "photon", "/", "src", "/", "index.ts">> >>,
             << <<"README.md">> >>,
             << <<"packages", "/", "engine-core", "/", "src", "/", "index.ts">>,
                <<"packages", "/", "photon", "-wasm", "/", "index.ts">> >> }
      [] dir = "lift" ->
           { <<>>, << <<"src", "/", "bin.ts">> >> }
      [] dir = "prisma2" ->
           { <<>>,
             << <<"cli", "/", "prisma2", "/", "src", "/", "bin.ts">> >>,
             << <<"README.md">> >> }

\* process.env.BUILDKITE_TAG: unset (EmptyVersion), a release, an alpha
BuildkiteTags == {EmptyVersion, Version(0, NoAlpha), Version(0, 9)}

\* what `npm info <pkg>@alpha version` can print
RemoteVersions == {EmptyVersion, Version(0, 7)}

----------------------------------------------------------------------------
(* getLatestChanges *)

\* commits.sort((a, b) => a.date < b.date ? 1 : -1): latest first
SortByDate(dates) ==
    LET order == CHOOSE s \in [1 .. 3 -> Repos] :
                     /\ \A i, j \in 1 .. 3 : i < j => dates[s[i]] > dates[s[j]]
    IN  [i \in 1 .. 3 |-> [dir |-> order[i], date |-> dates[order[i]]]]

\* the commits whose changes getLatestChanges asks for
Requested == IF args.allRepos THEN commits ELSE <<commits[1]>>

\* String.prototype.split("\n") of the output: "" splits into one empty string
Split(text) == IF text = <<>> THEN << <<>> >> ELSE text

\* getChangesFromCommit without its check of the output
getChangesUnchecked(commit, text) ==
    [error |-> FALSE,
     changes |-> [i \in DOMAIN Split(text) |-> Join(<<commit.dir>>, Split(text)[i])]]

\* getChangesFromCommit once git has answered: .error, or .changes
getChangesFromCommit(commit, text) ==
    IF Len(text) > 0
    THEN [error |-> FALSE,
          changes |-> [i \in DOMAIN Split(text) |-> Join(<<commit.dir>>, Split(text)[i])]]
    ELSE [error |-> TRUE, changes |-> <<>>]

----------------------------------------------------------------------------
(* getNewPrisma2Version *)

SetMax(S) == CHOOSE m \in S : \A x \in S : x <= m

\* the alpha numbers of the versions: empty outputs dropped, the number after
\* "alpha." taken, versions without one and the number 0 dropped (.filter(v => v)).
\* The local versions of this workspace always leave two numbers.
newPrisma2Version(versions) ==
    LET alphaVersions == {v.alpha : v \in {w \in versions : w # EmptyVersion /\ w.alpha > 0}}
    IN  Version(0, SetMax(alphaVersions) + 1)

IncludesAlpha(version) == version.alpha # NoAlpha

\* patch(version): major.minor.(patch + 1), without the prerelease
patch(version) == Version(version.patch + 1, NoAlpha)

isPrisma2OrPhoton(pkgName) == pkgName \in {Prisma2, Photon}

publishTag(version, pkgName) ==
    IF IncludesAlpha(version) /\ isPrisma2OrPhoton(pkgName) THEN "alpha" ELSE "latest"

newVersion(version, pkgName) ==
    IF isPrisma2OrPhoton(pkgName) THEN version ELSE patch(packages[pkgName].version)

----------------------------------------------------------------------------
(* The run: publish() *)

Init ==
    /\ pc = "getPackages"
    /\ args \in [publish : BOOLEAN, allRepos : BOOLEAN]
    /\ rawPackages = <<>>
    /\ packages = <<>>
    /\ info = <<>>
    /\ commits = <<>>
    /\ stdout = <<>>
    /\ changes = <<>>
    /\ changedPackages = <<>>
    /\ publishOrder = <<>>
    /\ prisma2Version = EmptyVersion
    /\ delay = 0
    /\ queue = <<>>
    /\ current = <<>>
    /\ log = <<>>
    /\ error = "none"

Abort(why) ==
    /\ pc' = "aborted"
    /\ error' = why

GetPackages ==
    /\ pc = "getPackages"
    /\ \E S \in DeclChoices : rawPackages' = RawOf(S)
    /\ pc' = "getPackageDependencies"
    /\ UNCHANGED <<args, packages, info, commits, stdout, changes, changedPackages,
                   publishOrder, prisma2Version, delay, queue, current, log, error>>

GetPackageDependencies ==
    /\ pc = "getPackageDependencies"
    /\ LET r == getPackageDependencies(rawPackages)
       IN  /\ packages' = r.cache
           /\ info' = r.info
    /\ pc' = "getCircularDependencies"
    /\ UNCHANGED <<args, rawPackages, commits, stdout, changes, changedPackages,
                   publishOrder, prisma2Version, delay, queue, current, log, error>>

GetCircularDependencies ==
    /\ pc = "getCircularDependencies"
    /\ IF Len(getCircularDependencies(packages)) > 0
       THEN Abort("circular dependencies")
       ELSE pc' = "getLatestCommit" /\ UNCHANGED error
    /\ UNCHANGED <<args, rawPackages, packages, info, commits, stdout, changes, changedPackages,
                   publishOrder, prisma2Version, delay, queue, current, log>>

\* The three `git log` are started together (Promise.all).  A group of
\* commands started together settles in one step: either one of them is the
\* first to fail, which rejects the Promise.all and ends the run while the
\* others may still be running, or all of them have succeeded.
StartGetLatestCommit ==
    /\ pc = "getLatestCommit"
    /\ log' = log \o << Plain(<<"prisma2">>, "git log"),
                        Plain(<<"lift">>, "git log"),
                        Plain(<<"photonjs">>, "git log") >>
    /\ pc' = "gitLog"
    /\ UNCHANGED <<args, rawPackages, packages, info, commits, stdout, changes, changedPackages,
                   publishOrder, prisma2Version, delay, queue, current, error>>

FinishGetLatestCommit ==
    /\ pc = "gitLog"
    /\ \/ \E k \in 1 .. 3 :
            /\ log' = SettleFailed(log, 3, k)
            /\ Abort("command failed")
            /\ UNCHANGED commits
       \/ \E dates \in DateChoices :
            /\ log' = SettleAll(log, 3)
            /\ commits' = SortByDate(dates)
            /\ pc' = "getChangesFromCommit"
            /\ UNCHANGED error
    /\ UNCHANGED <<args, rawPackages, packages, info, stdout, changes, changedPackages,
                   publishOrder, prisma2Version, delay, queue, current>>

\* one `git diff-tree` per requested commit, started together
StartGetChanges ==
    /\ pc = "getChangesFromCommit"
    /\ log' = log \o [i \in DOMAIN Requested |-> Plain(<<Requested[i].dir>>, "git diff-tree")]
    /\ pc' = "gitDiff"
    /\ UNCHANGED <<args, rawPackages, packages, info, commits, stdout, changes, changedPackages,
                   publishOrder, prisma2Version, delay, queue, current, error>>

\* `stdout` keeps what the diffs printed when all of them succeeded; an empty
\* output makes getChangesFromCommit throw, which ends the run
FinishGetChanges ==
    /\ pc = "gitDiff"
    /\ LET n == Len(Requested)
       IN  \/ \E k \in 1 .. n :
                /\ log' = SettleFailed(log, n, k)
                /\ Abort("command failed")
                /\ UNCHANGED <<stdout, changes>>
           \/ \E out \in [1 .. n -> UNION {DiffOutputs(r) : r \in Repos}] :
                /\ \A i \in 1 .. n : out[i] \in DiffOutputs(Requested[i].dir)
                /\ log' = SettleAll(log, n)
                /\ stdout' = out
                /\ LET got == [i \in 1 .. n |-> getChangesFromCommit(Requested[i], out[i])]
                   IN  IF \E i \in 1 .. n : got[i].error
                       THEN Abort("No changes detected") /\ UNCHANGED changes
                       ELSE /\ changes' = flatten([i \in 1 .. n |-> got[i].changes])
                            /\ pc' = "getPackagesAffectedByChange"
                            /\ UNCHANGED error
    /\ UNCHANGED <<args, rawPackages, packages, info, commits, changedPackages,
                   publishOrder, prisma2Version, delay, queue, current>>

GetPackagesAffectedByChange ==
    /\ pc = "getPackagesAffectedByChange"
    /\ changedPackages' = getPackagesAffectedByChange(packages, changes)
    /\ pc' = "getPublishOrder"
    /\ UNCHANGED <<args, rawPackages, packages, info, commits, stdout, changes,
                   publishOrder, prisma2Version, delay, queue, current, log, error>>

\* GetPublishOrder going on with whatever topo returned
GetPublishOrderUnchecked ==
    /\ pc = "getPublishOrder"
    /\ publishOrder' = getPublishOrder(packages, changedPackages).sorted
    /\ pc' = "slice"
    /\ UNCHANGED <<args, rawPackages, packages, info, commits, stdout, changes, changedPackages,
                   prisma2Version, delay, queue, current, log, error>>

GetPublishOrder ==
    /\ pc = "getPublishOrder"
    /\ LET r == getPublishOrder(packages, changedPackages)
       IN  IF r.cycle
           THEN Abort("Cycle(s) detected") /\ UNCHANGED publishOrder
           ELSE /\ publishOrder' = r.sorted
                /\ pc' = "slice"
                /\ UNCHANGED error
    /\ UNCHANGED <<args, rawPackages, packages, info, commits, stdout, changes, changedPackages,
                   prisma2Version, delay, queue, current, log>>

\* publishOrder = publishOrder.slice(3), then the branch on --publish
DropBatches ==
    /\ pc = "slice"
    /\ publishOrder' = Slice(publishOrder, 3)
    /\ IF args.publish
       THEN pc' = "getNewPrisma2Version" /\ UNCHANGED current
       ELSE pc' = "testPackages" /\ current' = flatten(publishOrder')
    /\ UNCHANGED <<args, rawPackages, packages, info, commits, stdout, changes, changedPackages,
                   prisma2Version, delay, queue, log, error>>

----------------------------------------------------------------------------
(* testPackages: `current` is what is left of the testing order *)

TestNext ==
    /\ pc = "testPackages"
    /\ IF current = <<>>
       THEN pc' = "done" /\ UNCHANGED <<current, log>>
       ELSE IF packages[Head(current)].packageJson.test
            THEN /\ log' = Append(log, Plain(PkgDir(Head(current)), "yarn test"))
                 /\ pc' = "yarnTest"
                 /\ UNCHANGED current
            ELSE /\ current' = Tail(current)
                 /\ UNCHANGED <<pc, log>>
    /\ UNCHANGED <<args, rawPackages, packages, info, commits, stdout, changes, changedPackages,
                   publishOrder, prisma2Version, delay, queue, error>>

\* FinishTest going on to the next package after a failed test
FinishTestContinue ==
    /\ pc = "yarnTest"
    /\ \E status \in {"ok", "failed"} : log' = Settle(log, status)
    /\ current' = Tail(current)
    /\ pc' = "testPackages"
    /\ UNCHANGED <<args, rawPackages, packages, info, commits, stdout, changes, changedPackages,
                   publishOrder, prisma2Version, delay, queue, error>>

FinishTest ==
    /\ pc = "yarnTest"
    /\ \/ /\ log' = Settle(log, "ok")
          /\ current' = Tail(current)
          /\ pc' = "testPackages"
          /\ UNCHANGED error
       \/ /\ log' = Settle(log, "failed")
          /\ Abort("command failed")
          /\ UNCHANGED current
    /\ UNCHANGED <<args, rawPackages, packages, info, commits, stdout, changes, changedPackages,
                   publishOrder, prisma2Version, delay, queue>>

----------------------------------------------------------------------------
(* publishPackages: `queue` is the batches still to come, `current` what is *)
(* left of the batch at hand                                                *)

\* getNewPrisma2Version reads the version of 'prisma2' and of '@prisma/photon'
\* from the packages it is given, which are the affected packages
GetNewPrisma2Version ==
    /\ pc = "getNewPrisma2Version"
    /\ \E tag \in BuildkiteTags :
         IF tag # EmptyVersion
         THEN /\ prisma2Version' = tag
              /\ pc' = "delay"
              /\ UNCHANGED <<log, error>>
         ELSE IF Prisma2 \notin Range(changedPackages) \/ Photon \notin Range(changedPackages)
              THEN Abort("TypeError") /\ UNCHANGED <<prisma2Version, log>>
              ELSE /\ log' = log \o << Plain(<<".">>, "npm info prisma2@alpha version"),
                                       Plain(<<".">>, "npm info @prisma/photon@alpha version") >>
                   /\ pc' = "npmInfo"
                   /\ UNCHANGED <<prisma2Version, error>>
    /\ UNCHANGED <<args, rawPackages, packages, info, commits, stdout, changes, changedPackages,
                   publishOrder, delay, queue, current>>

FinishNpmInfo ==
    /\ pc = "npmInfo"
    /\ \/ \E k \in 1 .. 2 :
            /\ log' = SettleFailed(log, 2, k)
            /\ Abort("command failed")
            /\ UNCHANGED prisma2Version
       \/ \E remotePrisma2Version, remotePhotonVersion \in RemoteVersions :
            /\ log' = SettleAll(log, 2)
            /\ prisma2Version' = newPrisma2Version({packages[Prisma2].version,
                                                    packages[Photon].version,
                                                    remotePrisma2Version,
                                                    remotePhotonVersion})
            /\ pc' = "delay"
            /\ UNCHANGED error
    /\ UNCHANGED <<args, rawPackages, packages, info, commits, stdout, changes, changedPackages,
                   publishOrder, delay, queue, current>>

\* the pause before the first batch, in seconds
ReviewDelay ==
    /\ pc = "delay"
    /\ delay' = IF ~IncludesAlpha(prisma2Version) THEN 10 ELSE 5
    /\ queue' = publishOrder
    /\ current' = <<>>
    /\ pc' = "publishPackages"
    /\ UNCHANGED <<args, rawPackages, packages, info, commits, stdout, changes, changedPackages,
                   publishOrder, prisma2Version, log, error>>

\* the for loop over the batches
NextBatch ==
    /\ pc = "publishPackages"
    /\ current = <<>>
    /\ IF queue = <<>>
       THEN pc' = "done" /\ UNCHANGED <<queue, current>>
       ELSE current' = Head(queue) /\ queue' = Tail(queue) /\ UNCHANGED pc
    /\ UNCHANGED <<args, rawPackages, packages, info, commits, stdout, changes, changedPackages,
                   publishOrder, prisma2Version, delay, log, error>>

YarnPublish(pkgName) ==
    Cmd(PkgDir(pkgName), "yarn publish", publishTag(prisma2Version, pkgName),
        newVersion(prisma2Version, pkgName))

YarnUpgrade(pkgName) == Plain(PkgDir(pkgName), "yarn upgrade")

\* pMap with concurrency 1 calls the mapper for the next package of the batch
StartPackage ==
    /\ pc = "publishPackages"
    /\ current # <<>>
    /\ IF ~isPrisma2OrPhoton(Head(current))
       THEN /\ log' = Append(log, YarnUpgrade(Head(current)))
            /\ pc' = "yarnUpgrade"
       ELSE /\ log' = Append(log, YarnPublish(Head(current)))
            /\ pc' = "yarnPublish"
    /\ UNCHANGED <<args, rawPackages, packages, info, commits, stdout, changes, changedPackages,
                   publishOrder, prisma2Version, delay, queue, current, error>>

\* the first `yarn upgrade` ends: the catch block runs it once more
FinishUpgrade ==
    /\ pc = "yarnUpgrade"
    /\ \/ /\ log' = Append(Settle(log, "ok"), YarnPublish(Head(current)))
          /\ pc' = "yarnPublish"
       \/ /\ log' = Append(Settle(log, "failed"), YarnUpgrade(Head(current)))
          /\ pc' = "yarnUpgradeAgain"
    /\ UNCHANGED <<args, rawPackages, packages, info, commits, stdout, changes, changedPackages,
                   publishOrder, prisma2Version, delay, queue, current, error>>

FinishUpgradeAgain ==
    /\ pc = "yarnUpgradeAgain"
    /\ \/ /\ log' = Append(Settle(log, "ok"), YarnPublish(Head(current)))
          /\ pc' = "yarnPublish"
          /\ UNCHANGED error
       \/ /\ log' = Settle(log, "failed")
          /\ Abort("command failed")
    /\ UNCHANGED <<args, rawPackages, packages, info, commits, stdout, changes, changedPackages,
                   publishOrder, prisma2Version, delay, queue, current>>

\* FinishPublish going on to the next package after a failed publish
FinishPublishContinue ==
    /\ pc = "yarnPublish"
    /\ \E status \in {"ok", "failed"} : log' = Settle(log, status)
    /\ current' = Tail(current)
    /\ pc' = "publishPackages"
    /\ UNCHANGED <<args, rawPackages, packages, info, commits, stdout, changes, changedPackages,
                   publishOrder, prisma2Version, delay, queue, error>>

FinishPublish ==
    /\ pc = "yarnPublish"
    /\ \/ /\ log' = Settle(log, "ok")
          /\ current' = Tail(current)
          /\ pc' = "publishPackages"
          /\ UNCHANGED error
       \/ /\ log' = Settle(log, "failed")
          /\ Abort("command failed")
          /\ UNCHANGED current
    /\ UNCHANGED <<args, rawPackages, packages, info, commits, stdout, changes, changedPackages,
                   publishOrder, prisma2Version, delay, queue>>

Next ==
    \/ GetPackages
    \/ GetPackageDependencies
    \/ GetCircularDependencies
    \/ StartGetLatestCommit
    \/ FinishGetLatestCommit
    \/ StartGetChanges
    \/ FinishGetChanges
    \/ GetPackagesAffectedByChange
    \/ GetPublishOrder
    \/ DropBatches
    \/ TestNext
    \/ FinishTest
    \/ GetNewPrisma2Version
    \/ FinishNpmInfo
    \/ ReviewDelay
    \/ NextBatch
    \/ StartPackage
    \/ FinishUpgrade
    \/ FinishUpgradeAgain
    \/ FinishPublish

Spec == Init /\ [][Next]_vars

----------------------------------------------------------------------------
(* Vocabulary of the properties *)

\* getPackageDependencies has returned
Built == pc \notin {"getPackages", "getPackageDependencies"}

\* getLatestChanges has returned and getPackagesAffectedByChange has run
AffectedKnown == changes # <<>> /\ pc # "getPackagesAffectedByChange"

\* getPublishOrder has run on the affected packages
PlannerRan == AffectedKnown /\ pc # "getPublishOrder"

UsesOf(P) == Range(packages[P].uses) \cup Range(packages[P].usesDev)

UsedByOf(P) == Range(packages[P].usedBy) \cup Range(packages[P].usedByDev)

\* the packages whose manifest directory is a prefix of a changed path
DirectlyChanged ==
    {P \in DOMAIN packages :
        \E i \in DOMAIN changes : StartsWith(changes[i], Dirname(packages[P].path))}

\* the least set that holds S and the usedBy and usedByDev of its members
RECURSIVE ReachableFrom(_)
ReachableFrom(S) ==
    LET T == S \cup UNION {UsedByOf(P) : P \in S}
    IN  IF T = S THEN S ELSE ReachableFrom(T)

Affected == Range(changedPackages)

\* the affected packages P depends on
AffectedDeps(P) == {Q \in Affected : P \in UsedByOf(Q)}

\* no affected package is its own dependant, however far
Acyclic == \A P \in Affected : P \notin ReachableFrom(UsedByOf(P))

\* the longest chain of affected dependencies below P (the graph being acyclic)
RECURSIVE Layer(_)
Layer(P) ==
    IF AffectedDeps(P) = {} THEN 0
    ELSE 1 + SetMax({Layer(Q) : Q \in AffectedDeps(P)})

\* the places of P in a sequence of batches
Places(order, P) ==
    UNION {{<<b, k>> : k \in {j \in DOMAIN order[b] : order[b][j] = P}} : b \in DOMAIN order}

IsYarn(c) == c.cmd \in {"yarn test", "yarn upgrade", "yarn publish"}

NoYarnIssued == \A i \in DOMAIN log : ~IsYarn(log[i])

\* the package a yarn command runs in
PkgAt(cwd) == CHOOSE n \in DOMAIN packages : PkgDir(n) = cwd

----------------------------------------------------------------------------
(* C1: getPackagesAffectedByChange returns exactly the packages reachable  *)
(* from the directly changed ones along usedBy and usedByDev edges, each   *)
(* once, on every graph, diamonds and cycles included.                     *)
C1_AffectedIsReachableSet ==
    AffectedKnown =>
        /\ Affected = ReachableFrom(DirectlyChanged)
        /\ Len(changedPackages) = Cardinality(Affected)

\* a diamond below the one changed package, all four affected
C1_Witness_Diamond ==
    /\ AffectedKnown
    /\ Cardinality(DirectlyChanged) = 1
    /\ \E c \in DirectlyChanged : \E a, b, d \in Affected :
          /\ Cardinality({a, b, c, d}) = 4
          /\ {a, b} \subseteq UsedByOf(c)
          /\ d \in UsedByOf(a) \cap UsedByOf(b)

(* C2: on an acyclic affected set getPublishOrder returns the layered      *)
(* topological order: every affected package is in exactly one batch, once,*)
(* and its batch is the one after the latest batch of its affected         *)
(* dependencies (the first batch if it has none), duplicate edges included.*)
C2_LayeredOrder ==
    (PlannerRan /\ Acyclic) =>
        /\ error # "Cycle(s) detected"
        /\ pc = "slice" =>
              \A P \in Affected :
                  /\ Cardinality(Places(publishOrder, P)) = 1
                  /\ \A pl \in Places(publishOrder, P) : pl[1] = Layer(P) + 1

\* three batches, with a package listed in usedBy and in usedByDev of another
C2_Witness_DuplicateEdge ==
    /\ pc = "slice"
    /\ Len(publishOrder) >= 3
    /\ \E P, Q \in Affected :
          Q \in Range(packages[P].usedBy) \cap Range(packages[P].usedByDev)

(* C3: when the affected graph has a cycle, of any length, getPublishOrder *)
(* fails and the run ends with no test or publish command issued.          *)
C3_CycleRejected ==
    (PlannerRan /\ ~Acyclic) =>
        /\ pc = "aborted"
        /\ error = "Cycle(s) detected"
        /\ publishOrder = <<>>
        /\ NoYarnIssued

\* a cycle of three packages, which the pairwise check let through
C3_Witness_LongCycle ==
    /\ error = "Cycle(s) detected"
    /\ \E a, b, c \in Affected :
          /\ Cardinality({a, b, c}) = 3
          /\ b \in UsedByOf(a) /\ c \in UsedByOf(b) /\ a \in UsedByOf(c)

\* some P and Q (maybe the same) of the workspace depend on each other
MutualDependency ==
    \E P, Q \in DOMAIN packages : Q \in UsesOf(P) /\ P \in UsesOf(Q)

(* C4: getCircularDependencies returns a non-empty result exactly when two *)
(* packages depend on each other directly (or one on itself), and then the *)
(* run aborts before the changes are read or any command is issued.        *)
C4_PairwiseCycleCheck ==
    Built =>
        /\ (Len(getCircularDependencies(packages)) > 0) <=> MutualDependency
        /\ (MutualDependency /\ pc # "getCircularDependencies") =>
              /\ pc = "aborted"
              /\ error = "circular dependencies"
              /\ log = <<>>
              /\ changes = <<>>
        /\ ~MutualDependency => error # "circular dependencies"

\* an aborted run on a graph whose only mutual dependency is through devDependencies
C4_Witness_Aborted ==
    /\ pc = "aborted"
    /\ error = "circular dependencies"
    /\ \E P, Q \in DOMAIN packages :
          /\ P # Q
          /\ Q \in Range(packages[P].usesDev)
          /\ P \in Range(packages[Q].uses)

\* the names a manifest declares
Declared(P, dev) ==
    Range(IF dev THEN rawPackages[P].packageJson.devDependencies
                 ELSE rawPackages[P].packageJson.dependencies)

Prefixed(names) == {d \in names : Head(d) = "@prisma"}

(* C5 as stated: uses and usesDev hold only names of discovered packages.  *)
C5_Original_UsesOnlyDiscovered ==
    Built => \A P \in DOMAIN packages : UsesOf(P) \subseteq DOMAIN packages

(* C5 as amended: uses and usesDev hold exactly the declared names that    *)
(* carry the namespace prefix, discovered or not; a prefixed name that is  *)
(* not a discovered package stays in uses/usesDev, enters no usedBy or     *)
(* usedByDev, and is reported by a diagnostic, without an error.           *)
C5_UsesArePrefixedDeclarations ==
    Built =>
        /\ \A P \in DOMAIN packages :
              /\ Range(packages[P].uses) = Prefixed(Declared(P, FALSE))
              /\ Range(packages[P].usesDev) = Prefixed(Declared(P, TRUE))
              /\ UsedByOf(P) \subseteq DOMAIN packages
        /\ Range(info) = UNION {UsesOf(P) : P \in DOMAIN packages} \ DOMAIN packages
        /\ pc = "getCircularDependencies" => error = "none"

\* a package that uses a prefixed name outside the workspace, reported
C5_Witness_ExternalKept ==
    /\ Built
    /\ \E P \in DOMAIN packages : Studio \in Range(packages[P].uses)
    /\ Studio \in Range(info)
    /\ pc = "getLatestCommit"

\* git answered a requested diff with no changed path
NoChangedPaths == \E i \in DOMAIN stdout : stdout[i] = <<>>

(* C6: a diff without changed paths aborts the run with "No changes        *)
(* detected" before getPackagesAffectedByChange and before any test or     *)
(* publish command; getPackagesAffectedByChange never gets an empty list.  *)
C6_EmptyChangeSetAborts ==
    /\ pc = "getPackagesAffectedByChange" => changes # <<>>
    /\ changedPackages # <<>> => changes # <<>>
    /\ NoChangedPaths =>
          /\ pc = "aborted"
          /\ error = "No changes detected"
          /\ changes = <<>>
          /\ changedPackages = <<>>
          /\ NoYarnIssued

\* --all-repos: one repository without changed paths, another with some
C6_Witness_AllRepos ==
    /\ args.allRepos
    /\ NoChangedPaths
    /\ \E i \in DOMAIN stdout : stdout[i] # <<>>
    /\ error = "No changes detected"

\* the packages of the batches handed to publishPackages
ToPublish == Range(flatten(publishOrder))

BatchOf(P) == CHOOSE b \in DOMAIN publishOrder : P \in Range(publishOrder[b])

\* P's `yarn publish` had completed successfully when command j was issued
PublishedBefore(P, j) ==
    \E i \in 1 .. j - 1 :
        /\ log[i].cmd = "yarn publish"
        /\ log[i].cwd = PkgDir(P)
        /\ log[i].status = "ok"

\* nothing of P's was still running, and its last command had not failed
SettledBefore(P, j) ==
    \A i \in 1 .. j - 1 :
        (IsYarn(log[i]) /\ log[i].cwd = PkgDir(P)) =>
            /\ log[i].status # "running"
            /\ log[i].status = "failed" =>
                  \E k \in i + 1 .. j - 1 : log[k].cwd = PkgDir(P) /\ log[k].status = "ok"

NpmInfo == {"npm info prisma2@alpha version", "npm info @prisma/photon@alpha version"}

\* commands started together by one Promise.all
Together(c, d) ==
    \/ c.cmd = d.cmd /\ c.cmd \in {"git log", "git diff-tree"}
    \/ c.cmd \in NpmInfo /\ d.cmd \in NpmInfo

\* command i failed, the run aborted, and nothing was issued after it failed:
\* what follows it in the log was started together with it
Fatal(i) ==
    /\ pc = "aborted"
    /\ error = "command failed"
    /\ \A j \in i + 1 .. Len(log) :
          log[j].status = "running" /\ Together(log[i], log[j])

\* command i is a package's first `yarn upgrade`, and was run once more
FirstUpgradeRunAgain(i) ==
    /\ log[i].cmd = "yarn upgrade"
    /\ i < Len(log)
    /\ log[i + 1].cmd = "yarn upgrade"
    /\ log[i + 1].cwd = log[i].cwd
    /\ i > 1 => ~(log[i - 1].cmd = "yarn upgrade" /\ log[i - 1].cwd = log[i].cwd)

(* C8 as stated: every failed command ends the run, none is run again.     *)
C8_Original_EveryFailureFatal ==
    \A i \in DOMAIN log : log[i].status = "failed" => Fatal(i)

(* C8 as amended: every failed command ends the run with no further        *)
(* command issued and is not run again, except a package's first           *)
(* `yarn upgrade` in publish mode, which is run again once; if that second *)
(* run fails too, the run ends.                                            *)
C8_FatalButFirstUpgrade ==
    \A i \in DOMAIN log :
        log[i].status = "failed" => Fatal(i) \/ FirstUpgradeRunAgain(i)

\* a first upgrade failed, its second run succeeded, and the package was published
C8_Witness_UpgradeRunAgain ==
    \E i \in DOMAIN log :
        /\ log[i].status = "failed"
        /\ FirstUpgradeRunAgain(i)
        /\ log[i + 1].status = "ok"
        /\ pc = "done"

(* C9: if P is in usedBy of Q then Q is in uses or usesDev of P, and every *)
(* name in a usedBy or usedByDev is a key of the package graph.            *)
C9_EdgeSymmetry ==
    Built =>
        \A Q \in DOMAIN packages :
            /\ \A P \in Range(packages[Q].usedBy) :
                  P \in DOMAIN packages /\ Q \in UsesOf(P)
            /\ UsedByOf(Q) \subseteq DOMAIN packages

\* a graph with a usedBy edge and a usedByDev edge
C9_Witness_BothKinds ==
    /\ Built
    /\ \E Q \in DOMAIN packages : packages[Q].usedBy # <<>>
    /\ \E Q \in DOMAIN packages : packages[Q].usedByDev # <<>>

(* C10: a run with --publish in which every command succeeds has issued a  *)
(* yarn publish for 'prisma2' with the new prisma2 version when it ends.   *)
C10_Prisma2AlwaysPublished ==
    (/\ pc = "done"
     /\ args.publish
     /\ \A i \in DOMAIN log : log[i].status = "ok")
    => \E i \in DOMAIN log :
          /\ log[i].cmd = "yarn publish"
          /\ log[i].cwd = PkgDir(Prisma2)
          /\ log[i].version = prisma2Version

====
